---- MODULE Spec2Model ----
(***************************************************************************)
(* Model of pip/_internal/pyproject.py: the decision of whether a project  *)
(* is built through PEP 517 (isolated, declared backend) or through the    *)
(* legacy setup.py path, and which build requirements it declares.         *)
(*                                                                         *)
(* Python values are encoded so that TLC can compare them:                 *)
(*   - Optional[T]  is a sequence of length 0 (None) or 1 (the value);     *)
(*   - a TOML value is a record [type, text, items];                       *)
(*   - the [build-system] table is a record with one optional entry per    *)
(*     key the code looks at, plus a flag for any other key;               *)
(*   - use_pep517 is one of "None", "True", "False", "0", "1";             *)
(*   - a message is the sequence of its literal pieces and the values      *)
(*     substituted by str.format.                                          *)
(***************************************************************************)
EXTENDS Naturals, Sequences, FiniteSets, TLC

VARIABLES
    entry,           \* which function the caller invoked
    pyproject_file,  \* the pyproject.toml file on disk
    setup_file,      \* whether setup.py is a file on disk
    user_pep517,     \* the use_pep517 argument as the caller passed it
    editable,        \* the editable argument
    req_name,        \* the req_name argument
    build_system,    \* local/argument build_system
    has_pyproject,   \* local/argument has_pyproject
    has_setup,       \* local/argument has_setup
    use_pep517,      \* local use_pep517 (reassigned by the decision tree)
    requires,        \* local requires
    pc,              \* position of the call
    result,          \* how the call ended
    events           \* observable effects, in order: file checks, reads, warnings

vars == <<entry, pyproject_file, setup_file, user_pep517, editable, req_name,
          build_system, has_pyproject, has_setup, use_pep517, requires, pc,
          result, events>>

----
\* Bounds

MaxRequires == 2

----
\* Python values

None == <<>>

Some(x) == <<x>>

PyStr(s) == [type |-> "str", text |-> s, items |-> <<>>]

PyInt(s) == [type |-> "int", text |-> s, items |-> <<>>]

PyList(xs) == [type |-> "list", text |-> "", items |-> xs]

PyBool(b) == IF b THEN "True" ELSE "False"

IsNone(v) == v = "None"

Truthy(v) == v \in {"True", "1"}

Pep517Values == {"None", "True", "False", "0", "1"}

ReqNames == {"pkgA", "pkgB"}

Items == {PyStr("foo"), PyStr("bar"), PyInt("7")}

SeqsUpTo(S, n) == UNION {[1..k -> S] : k \in 0..n}

RequiresValues == {PyList(xs) : xs \in SeqsUpTo(Items, MaxRequires)} \cup {PyStr("foo")}

BackendValues == {"", "pkg:build"}

Tables ==
    [requires : {None} \cup {Some(r) : r \in RequiresValues},
     backend  : {None} \cup {Some(b) : b \in BackendValues},
     extra    : BOOLEAN]

BuildSystems == {None} \cup {Some(t) : t \in Tables}

Files ==
    {[exists |-> FALSE, valid |-> FALSE, build_system |-> None]}
    \cup {[exists |-> TRUE, valid |-> FALSE, build_system |-> None]}
    \cup {[exists |-> TRUE, valid |-> TRUE, build_system |-> b] : b \in BuildSystems}

NoFile == [exists |-> FALSE, valid |-> FALSE, build_system |-> None]

----
\* Results

Running == [status |-> "running", exc |-> "", message |-> <<>>,
            requires |-> None, pep517_data |-> None]

Raised(exc, message) == [status |-> "raised", exc |-> exc, message |-> message,
                         requires |-> None, pep517_data |-> None]

Returned(reqs, data) == [status |-> "returned", exc |-> "", message |-> <<>>,
                         requires |-> reqs, pep517_data |-> data]

----
\* _is_list_of_str

\* variant: only the container is checked, not its items
_is_list_of_str_AnyList(obj) == obj.type = "list"

_is_list_of_str(obj) ==
    /\ obj.type = "list"
    /\ \A i \in DOMAIN obj.items : obj.items[i].type = "str"

\* dict truthiness and membership

DictTruthy(d) == d.requires /= None \/ d.backend /= None \/ d.extra

----
\* read_pyproject_toml: pytoml.load raises on a file that is not valid TOML;
\* otherwise the "build-system" value of the document, or None.

read_pyproject_toml(file) ==
    IF ~file.valid
    THEN [raised |-> TRUE, value |-> None]
    ELSE [raised |-> FALSE, value |-> file.build_system]

----
\* Messages

make_editable_error(name, reason) ==
    <<"Error installing ", "'", name, "'",
      ": editable mode is not supported for pyproject.toml-style projects. This project is being processed as pyproject.toml-style because ",
      reason,
      ". See PEP 517 for the relevant specification.">>

ReasonExplicit == "PEP 517 processing was explicitly requested"

ReasonNoSetup == "it has a pyproject.toml file and no setup.py"

DisableNoSetupMessage ==
    <<"Disabling PEP 517 processing is invalid: project does not have a setup.py">>

DisableBackendMessage(backend) ==
    <<"Disabling PEP 517 processing is invalid: project specifies a build backend of ",
      backend, " in pyproject.toml">>

EditableBackendMessage(name) ==
    <<"Error installing ", "'", name, "'",
      ": editable mode is not supported for pyproject.toml-style projects. This project is pyproject.toml-style because it has a pyproject.toml file and a \"build-backend\" key for the [build-system] table, but editable mode is undefined for pyproject.toml-style projects. Since the project has a setup.py, you may pass --no-use-pep517 to opt out of pyproject.toml-style processing. However, this is an unsupported combination. See PEP 517 for details on pyproject.toml-style projects.">>

EditableWarningMessage(name) ==
    <<"Installing ", "'", name, "'",
      " in editable mode, which is not supported for pyproject.toml-style projects: this project is pyproject.toml-style because it has a pyproject.toml file and a \"build-backend\" key for the [build-system] table, but editable mode is undefined for pyproject.toml-style projects. See PEP 517 for details on pyproject.toml-style projects.">>

EditablePyprojectMessage(name) ==
    <<"Error installing ", "'", name, "'",
      ": editable mode is not supported for pyproject.toml-style projects. pip is processing this project as pyproject.toml-style because it has a pyproject.toml file. Since the project has a setup.py and the pyproject.toml has no \"build-backend\" key for the [build-system] table, you may pass --no-use-pep517 to opt out of pyproject.toml-style processing. See PEP 517 for details on pyproject.toml-style projects.">>

error_template(package, reason) ==
    <<package, " has a pyproject.toml file that does not comply with PEP 518: ", reason>>

ReasonMissingRequires ==
    "it has a 'build-system' table but not 'build-system.requires' which is mandatory in the table"

ReasonNotListOfStr == "'build-system.requires' is not a list of strings."

----
\* get_build_system_requires

\* variant: a table without the requires key is treated like no table
get_build_system_requires_OptionalRequires(bs, name) ==
    IF bs = None \/ bs[1].requires = None
    THEN [raised |-> FALSE, message |-> <<>>, value |-> None]
    ELSE IF ~_is_list_of_str(bs[1].requires[1])
    THEN [raised |-> TRUE, message |-> error_template(name, ReasonNotListOfStr),
          value |-> None]
    ELSE [raised |-> FALSE, message |-> <<>>, value |-> bs[1].requires]

get_build_system_requires(bs, name) ==
    IF bs = None
    THEN [raised |-> FALSE, message |-> <<>>, value |-> None]
    ELSE IF bs[1].requires = None
    THEN [raised |-> TRUE, message |-> error_template(name, ReasonMissingRequires),
          value |-> None]
    ELSE IF ~_is_list_of_str(bs[1].requires[1])
    THEN [raised |-> TRUE, message |-> error_template(name, ReasonNotListOfStr),
          value |-> None]
    ELSE [raised |-> FALSE, message |-> <<>>, value |-> bs[1].requires]

----
\* resolve_pyproject_toml, lines 140-216: the decision tree

TreeRaise(exc, message) ==
    [raised |-> TRUE, exc |-> exc, message |-> message,
     use_pep517 |-> "None", warnings |-> <<>>]

TreeSettle(value, warnings) ==
    [raised |-> FALSE, exc |-> "", message |-> <<>>,
     use_pep517 |-> value, warnings |-> warnings]

\* variant: identity test against True instead of truthiness
EditableAndRequested_IsTrue(ed, up) == ed /\ up = "True"

EditableAndRequested(ed, up) == ed /\ Truthy(up)

\* variant: the "is not None" half of the test is dropped
ExplicitlyDisabled_NoneAsDisabled(up) == ~Truthy(up)

ExplicitlyDisabled(up) == ~IsNone(up) /\ ~Truthy(up)

DeclaresBackend(bs) ==
    /\ bs /= None
    /\ DictTruthy(bs[1])
    /\ bs[1].backend /= None

\* variant: the warning path falls through to use_pep517 = True
BackendBranch_WarnThenEnable(bs, up, ed, name) ==
    IF ed
    THEN IF IsNone(up)
         THEN TreeRaise("InstallationError", EditableBackendMessage(name))
         ELSE IF Truthy(up)
         THEN TreeRaise("AssertionError", <<>>)
         ELSE TreeSettle("True", <<EditableWarningMessage(name)>>)
    ELSE IF ExplicitlyDisabled(up)
    THEN TreeRaise("InstallationError", DisableBackendMessage(bs[1].backend[1]))
    ELSE TreeSettle("True", <<>>)

BackendBranch(bs, up, ed, name) ==
    IF ed
    THEN IF IsNone(up)
         THEN TreeRaise("InstallationError", EditableBackendMessage(name))
         ELSE IF Truthy(up)
         THEN TreeRaise("AssertionError", <<>>)
         ELSE TreeSettle(up, <<EditableWarningMessage(name)>>)
    ELSE IF ExplicitlyDisabled(up)
    THEN TreeRaise("InstallationError", DisableBackendMessage(bs[1].backend[1]))
    ELSE TreeSettle("True", <<>>)

NoSetupBranch(up, ed, name) ==
    IF ExplicitlyDisabled(up)
    THEN TreeRaise("InstallationError", DisableNoSetupMessage)
    ELSE IF ed
    THEN TreeRaise("InstallationError", make_editable_error(name, ReasonNoSetup))
    ELSE TreeSettle("True", <<>>)

UnspecifiedBranch(hp, ed, name) ==
    IF hp /\ ed
    THEN TreeRaise("InstallationError", EditablePyprojectMessage(name))
    ELSE TreeSettle(PyBool(hp), <<>>)

\* variant: the no-setup.py branch is tested before the explicit-request one
TreeBranches_NoSetupFirst(bs, hp, hs, up, ed, name) ==
    IF hp /\ ~hs
    THEN NoSetupBranch(up, ed, name)
    ELSE IF EditableAndRequested(ed, up)
    THEN TreeRaise("InstallationError", make_editable_error(name, ReasonExplicit))
    ELSE IF DeclaresBackend(bs)
    THEN BackendBranch(bs, up, ed, name)
    ELSE IF IsNone(up)
    THEN UnspecifiedBranch(hp, ed, name)
    ELSE TreeSettle(up, <<>>)

TreeBranches(bs, hp, hs, up, ed, name) ==
    IF EditableAndRequested(ed, up)
    THEN TreeRaise("InstallationError", make_editable_error(name, ReasonExplicit))
    ELSE IF hp /\ ~hs
    THEN NoSetupBranch(up, ed, name)
    ELSE IF DeclaresBackend(bs)
    THEN BackendBranch(bs, up, ed, name)
    ELSE IF IsNone(up)
    THEN UnspecifiedBranch(hp, ed, name)
    ELSE TreeSettle(up, <<>>)

DecisionTree(bs, hp, hs, up, ed, name) ==
    LET t == TreeBranches(bs, hp, hs, up, ed, name)
    IN  IF ~t.raised /\ IsNone(t.use_pep517)
        THEN [TreeRaise("AssertionError", <<>>) EXCEPT !.warnings = t.warnings]
        ELSE t

----
\* resolve_pyproject_toml, lines 225-263: the PEP 517 path

DefaultRequires == PyList(<<PyStr("setuptools>=40.8.0"), PyStr("wheel")>>)

DefaultBackend == "setuptools.build_meta:__legacy__"

\* variant: the synthesized table names no backend
DefaultBuildSystem_NoBackend ==
    [requires |-> None, backend |-> None, extra |-> FALSE]

DefaultBuildSystem ==
    [requires |-> None, backend |-> Some(DefaultBackend), extra |-> FALSE]

\* variant: the check list is never filled in
BackendAndCheck_NoCheck(declared) ==
    IF declared = None
    THEN [backend |-> DefaultBackend, check |-> PyList(<<>>)]
    ELSE [backend |-> declared[1], check |-> PyList(<<>>)]

BackendAndCheck(declared) ==
    IF declared = None
    THEN [backend |-> DefaultBackend, check |-> DefaultRequires]
    ELSE [backend |-> declared[1], check |-> PyList(<<>>)]

IsolatedResult(bs, reqs) ==
    LET reqs2 == IF bs = None THEN Some(DefaultRequires) ELSE reqs
        bs2   == IF bs = None THEN Some(DefaultBuildSystem) ELSE bs
    IN  IF bs2 = None
        THEN Raised("AssertionError", <<>>)
        ELSE Returned(reqs2, Some(BackendAndCheck(bs2[1].backend)))

----
\* The call.  A caller either invokes load_pyproject_toml on a source
\* directory, or resolve_pyproject_toml with arguments of its own.

InitLoad ==
    /\ entry = "load"
    /\ pyproject_file \in Files
    /\ setup_file \in BOOLEAN
    /\ build_system = None
    /\ has_pyproject = FALSE
    /\ has_setup = FALSE
    /\ pc = "isfile"

InitResolve ==
    /\ entry = "resolve"
    /\ pyproject_file = NoFile
    /\ setup_file = FALSE
    /\ build_system \in BuildSystems
    /\ has_pyproject \in BOOLEAN
    /\ has_setup \in BOOLEAN
    /\ pc = "tree"

Init ==
    /\ user_pep517 \in Pep517Values
    /\ use_pep517 = user_pep517
    /\ editable \in BOOLEAN
    /\ req_name \in ReqNames
    /\ requires = None
    /\ result = Running
    /\ events = <<>>
    /\ (InitLoad \/ InitResolve)

\* load_pyproject_toml, lines 294-295
LoadIsFile ==
    /\ pc = "isfile"
    /\ has_pyproject' = pyproject_file.exists
    /\ has_setup' = setup_file
    /\ events' = events \o <<"isfile">>
    /\ pc' = "read"
    /\ UNCHANGED <<entry, pyproject_file, setup_file, user_pep517, editable,
                   req_name, build_system, use_pep517, requires, result>>

\* load_pyproject_toml, lines 297-300
LoadRead ==
    /\ pc = "read"
    /\ IF has_pyproject
       THEN LET r == read_pyproject_toml(pyproject_file)
            IN  /\ events' = events \o <<"open">>
                /\ IF r.raised
                   THEN /\ result' = Raised("TomlError", <<>>)
                        /\ pc' = "done"
                        /\ UNCHANGED build_system
                   ELSE /\ build_system' = r.value
                        /\ pc' = "tree"
                        /\ UNCHANGED result
       ELSE /\ build_system' = None
            /\ pc' = "tree"
            /\ UNCHANGED <<events, result>>
    /\ UNCHANGED <<entry, pyproject_file, setup_file, user_pep517, editable,
                   req_name, has_pyproject, has_setup, use_pep517, requires>>

\* resolve_pyproject_toml, lines 140-216
ResolveTree ==
    /\ pc = "tree"
    /\ LET t == DecisionTree(build_system, has_pyproject, has_setup,
                             use_pep517, editable, req_name)
       IN  /\ events' = events \o [i \in DOMAIN t.warnings |-> "warning"]
           /\ IF t.raised
              THEN /\ result' = Raised(t.exc, t.message)
                   /\ pc' = "done"
                   /\ UNCHANGED use_pep517
              ELSE /\ use_pep517' = t.use_pep517
                   /\ pc' = "requires"
                   /\ UNCHANGED result
    /\ UNCHANGED <<entry, pyproject_file, setup_file, user_pep517, editable,
                   req_name, build_system, has_pyproject, has_setup, requires>>

\* resolve_pyproject_toml, line 218
ResolveRequires ==
    /\ pc = "requires"
    /\ LET r == get_build_system_requires(build_system, req_name)
       IN  /\ events' = events \o <<"validate">>
           /\ IF r.raised
              THEN /\ result' = Raised("InstallationError", r.message)
                   /\ pc' = "done"
                   /\ UNCHANGED requires
              ELSE /\ requires' = r.value
                   /\ pc' = "mode"
                   /\ UNCHANGED result
    /\ UNCHANGED <<entry, pyproject_file, setup_file, user_pep517, editable,
                   req_name, build_system, has_pyproject, has_setup, use_pep517>>

\* resolve_pyproject_toml, lines 222-223
ReturnLegacy ==
    /\ pc = "mode"
    /\ ~Truthy(use_pep517)
    /\ result' = Returned(requires, None)
    /\ pc' = "done"
    /\ UNCHANGED <<entry, pyproject_file, setup_file, user_pep517, editable,
                   req_name, build_system, has_pyproject, has_setup, use_pep517,
                   requires, events>>

\* resolve_pyproject_toml, lines 225-263
ReturnIsolated ==
    /\ pc = "mode"
    /\ Truthy(use_pep517)
    /\ result' = IsolatedResult(build_system, requires)
    /\ pc' = "done"
    /\ UNCHANGED <<entry, pyproject_file, setup_file, user_pep517, editable,
                   req_name, build_system, has_pyproject, has_setup, use_pep517,
                   requires, events>>

Next ==
    \/ LoadIsFile
    \/ LoadRead
    \/ ResolveTree
    \/ ResolveRequires
    \/ ReturnLegacy
    \/ ReturnIsolated

Spec == Init /\ [][Next]_vars

TypeOK ==
    /\ entry \in {"load", "resolve"}
    /\ pc \in {"isfile", "read", "tree", "requires", "mode", "done"}
    /\ use_pep517 \in Pep517Values
    /\ result.status \in {"running", "returned", "raised"}
    /\ (pc = "done") = (result.status /= "running")

----
\* Vocabulary of the properties

Done == pc = "done"

\* the call ended inside resolve_pyproject_toml (not in the read before it)
ResolverEnded == Done /\ result.exc /= "TomlError"

DeclarationPresent == build_system /= None

BackendDeclared == DeclarationPresent /\ build_system[1].backend /= None

RequiresMissing == DeclarationPresent /\ build_system[1].requires = None

RequiresMalformed ==
    /\ DeclarationPresent
    /\ build_system[1].requires /= None
    /\ \/ build_system[1].requires[1].type /= "list"
       \/ \E i \in DOMAIN build_system[1].requires[1].items :
              build_system[1].requires[1].items[i].type /= "str"

MissingRequiresError ==
    Raised("InstallationError", error_template(req_name, ReasonMissingRequires))

NotListOfStrError ==
    Raised("InstallationError", error_template(req_name, ReasonNotListOfStr))

ExplicitEditableError ==
    Raised("InstallationError", make_editable_error(req_name, ReasonExplicit))

Warned == \E i \in DOMAIN events : events[i] = "warning"

Validated == \E i \in DOMAIN events : events[i] = "validate"

Opened == \E i \in DOMAIN events : events[i] = "open"

EmptyList == PyList(<<>>)

----
\* The decision tree as section 4.3 of the specification words it, over the
\* tri-state isolation flag.

TriState(v) ==
    IF v = "None" THEN "Unspecified"
    ELSE IF v \in {"True", "1"} THEN "Enabled"
    ELSE "Disabled"

SpecTree(declaresBackend, hasConfigFile, hasLegacyBuildScript, isolation, editableRequested) ==
    IF editableRequested /\ isolation = "Enabled" THEN "raise"
    ELSE IF hasConfigFile /\ ~hasLegacyBuildScript
    THEN IF isolation = "Disabled" THEN "raise"
         ELSE IF editableRequested THEN "raise"
         ELSE "Enabled"
    ELSE IF declaresBackend
    THEN IF editableRequested
         THEN IF isolation = "Unspecified" THEN "raise" ELSE "Disabled"
         ELSE IF isolation = "Disabled" THEN "raise"
         ELSE "Enabled"
    ELSE IF isolation = "Unspecified"
    THEN IF hasConfigFile /\ editableRequested THEN "raise"
         ELSE IF hasConfigFile THEN "Enabled" ELSE "Disabled"
    ELSE isolation

SpecSettled ==
    SpecTree(BackendDeclared, has_pyproject, has_setup, TriState(user_pep517), editable)

----
\* C1: on every input, resolve_pyproject_toml raises exactly when the decision
\* tree of section 4.3 or the requires validation raises, and otherwise returns
\* PEP 517 data if and only if the tree settled on isolation Enabled.
C1_AgreesWithDecisionTree ==
    ResolverEnded =>
        /\ (result.status = "raised") =
               (SpecSettled = "raise" \/ RequiresMissing \/ RequiresMalformed)
        /\ result.status = "returned" =>
               ((result.pep517_data /= None) = (SpecSettled = "Enabled"))

C1_Witness ==
    /\ Done
    /\ entry = "resolve"
    /\ user_pep517 = "None"
    /\ has_pyproject /\ has_setup /\ ~BackendDeclared
    /\ result.status = "returned"
    /\ result.pep517_data /= None

----
\* C2 (as claimed): with editable and isolation explicitly enabled,
\* load_pyproject_toml always ends in the explicit-request editable error, and
\* no file is read, parsed or validated before it.
C2_EditableErrorBeforeAnyRead ==
    (Done /\ entry = "load" /\ editable /\ user_pep517 \in {"True", "1"}) =>
        /\ result = ExplicitEditableError
        /\ ~Opened
        /\ ~Validated

\* C2 (amended): with editable and isolation explicitly enabled, the resolver
\* raises the explicit-request editable error before any requires validation;
\* load_pyproject_toml has by then read pyproject.toml whenever it exists, and
\* ends in the parse error instead when that file is not valid TOML.
C2_EditableErrorAfterRead ==
    (Done /\ editable /\ user_pep517 \in {"True", "1"}) =>
        /\ ~Validated
        /\ IF entry = "load" /\ pyproject_file.exists /\ ~pyproject_file.valid
           THEN result = Raised("TomlError", <<>>)
           ELSE result = ExplicitEditableError
        /\ entry = "load" => (Opened = pyproject_file.exists)

C2_Witness ==
    /\ Done
    /\ entry = "load"
    /\ editable /\ user_pep517 = "1"
    /\ pyproject_file.exists /\ pyproject_file.valid
    /\ ~setup_file
    /\ RequiresMissing
    /\ Opened
    /\ result = ExplicitEditableError

----
\* C3 (as claimed): a declaration with build-backend and without requires
\* always fails with the missing-requires error, whatever the isolation
\* setting.
C3_AlwaysMissingRequiresError ==
    (ResolverEnded /\ BackendDeclared /\ RequiresMissing) =>
        result = MissingRequiresError

\* C3 (amended): a declaration with build-backend and without requires never
\* yields a result; the failure is the missing-requires error whenever
\* isolation is not explicitly disabled and editable is not requested (and on
\* the warning path), and one of the two "Disabling PEP 517 processing is
\* invalid" errors when isolation is explicitly disabled without editable.
C3_MissingRequiresUnlessTreeRaises ==
    (ResolverEnded /\ BackendDeclared /\ RequiresMissing) =>
        /\ result.status = "raised"
        /\ result.exc = "InstallationError"
        /\ (~editable /\ user_pep517 \in {"None", "True", "1"}) =>
               result = MissingRequiresError
        /\ (~editable /\ user_pep517 \in {"False", "0"}) =>
               result.message \in
                   {DisableNoSetupMessage,
                    DisableBackendMessage(build_system[1].backend[1])}
        /\ Warned => result = MissingRequiresError

C3_Witness ==
    /\ Done
    /\ BackendDeclared /\ RequiresMissing
    /\ ~editable
    /\ has_setup
    /\ user_pep517 = "None"
    /\ result = MissingRequiresError

----
\* C4 (as claimed): once the warning is emitted the call raises nothing and
\* returns a legacy result; the warning is emitted only for a declared
\* backend, editable, isolation explicitly disabled.
C4_WarningNeverFatal ==
    Warned =>
        /\ editable /\ BackendDeclared /\ user_pep517 \in {"False", "0"}
        /\ Done => (result.status = "returned" /\ result.pep517_data = None)

\* C4 (amended): the warning is emitted once, only for a declared backend with
\* editable and isolation explicitly disabled; the call then never takes the
\* PEP 517 path: it returns a legacy result when the declared requires is a
\* list of strings, and fails with the requires validation error otherwise.
C4_WarningThenLegacyOrValidationError ==
    Warned =>
        /\ editable /\ BackendDeclared /\ user_pep517 \in {"False", "0"}
        /\ Cardinality({i \in DOMAIN events : events[i] = "warning"}) = 1
        /\ Done =>
              IF RequiresMissing THEN result = MissingRequiresError
              ELSE IF RequiresMalformed THEN result = NotListOfStrError
              ELSE /\ result.status = "returned"
                   /\ result.pep517_data = None
                   /\ result.requires = build_system[1].requires

C4_Witness ==
    /\ Done
    /\ Warned
    /\ user_pep517 = "False"
    /\ result.status = "returned"
    /\ result.pep517_data = None

----
\* C5: whenever a result carries PEP 517 data, its backend string is not
\* empty.
C5_BackendNeverEmpty ==
    (result.status = "returned" /\ result.pep517_data /= None) =>
        result.pep517_data[1].backend /= ""

----
\* C6 (as claimed): pyproject.toml present with an empty or absent
\* build-system section, no setup.py, isolation unspecified, not editable:
\* the result is the default requires, the default backend and no checks.
C6_DefaultsForEmptyOrAbsentSection ==
    (ResolverEnded /\ has_pyproject /\ ~has_setup /\ user_pep517 = "None"
       /\ ~editable
       /\ (build_system = None
             \/ build_system = Some([requires |-> None, backend |-> None,
                                     extra |-> FALSE]))) =>
        result = Returned(Some(DefaultRequires),
                          Some([backend |-> DefaultBackend, check |-> EmptyList]))

\* C6 (amended): with the build-system section absent the result is the
\* default requires, the default backend and no checks; with the section
\* present but empty the call fails with the missing-requires error.
C6_DefaultsForAbsentSection ==
    (ResolverEnded /\ has_pyproject /\ ~has_setup /\ user_pep517 = "None"
       /\ ~editable) =>
        /\ build_system = None =>
               result = Returned(Some(DefaultRequires),
                                 Some([backend |-> DefaultBackend,
                                       check |-> EmptyList]))
        /\ build_system = Some([requires |-> None, backend |-> None,
                                extra |-> FALSE]) =>
               result = MissingRequiresError

C6_Witness ==
    /\ Done
    /\ entry = "load"
    /\ pyproject_file.exists /\ pyproject_file.valid
    /\ pyproject_file.build_system = None
    /\ ~setup_file
    /\ user_pep517 = "None"
    /\ ~editable
    /\ result.status = "returned"
    /\ result.pep517_data /= None

----
\* C7: every InstallationError raised by the resolver has the package name in
\* its message.
C7_ErrorsNamePackage ==
    (result.status = "raised" /\ result.exc = "InstallationError") =>
        \E i \in DOMAIN result.message : result.message[i] = req_name

----
\* C8: in a PEP 517 result the check list is the default pair exactly when a
\* declaration is present without a build-backend key and is empty otherwise;
\* the returned requires is None only in a legacy result with no declaration.
C8_ChecksOnlyForDefaultedBackend ==
    result.status = "returned" =>
        /\ result.pep517_data /= None =>
               IF DeclarationPresent /\ ~BackendDeclared
               THEN result.pep517_data[1].check = DefaultRequires
               ELSE result.pep517_data[1].check = EmptyList
        /\ result.requires = None =>
               (result.pep517_data = None /\ ~DeclarationPresent)

C8_Witness ==
    /\ Done
    /\ DeclarationPresent /\ ~BackendDeclared
    /\ has_setup
    /\ user_pep517 = "None"
    /\ ~editable
    /\ result.status = "returned"
    /\ result.requires = Some(PyList(<<PyStr("foo")>>))
    /\ result.pep517_data =
           Some([backend |-> DefaultBackend, check |-> DefaultRequires])

----
\* C9: a present declaration whose requires is missing or is not a list of
\* strings never yields a result, in legacy mode as in PEP 517 mode; every
\* result was validated, and with a declaration present it returns the
\* declared requires unchanged.
C9_RequiresAlwaysValidated ==
    ResolverEnded =>
        /\ (RequiresMissing \/ RequiresMalformed) =>
               (result.status = "raised" /\ result.exc = "InstallationError")
        /\ result.status = "returned" => Validated
        /\ (result.status = "returned" /\ DeclarationPresent) =>
               result.requires = build_system[1].requires

C9_Witness ==
    /\ Done
    /\ user_pep517 = "False"
    /\ has_setup
    /\ ~BackendDeclared
    /\ DeclarationPresent
    /\ build_system[1].requires = Some(PyList(<<PyStr("foo"), PyInt("7")>>))
    /\ result = NotListOfStrError

----
\* C10: none of the three assertions of resolve_pyproject_toml fails.
C10_AssertionsHold == result.exc /= "AssertionError"

C10_Witness ==
    /\ Done
    /\ Warned
    /\ user_pep517 = "0"
    /\ has_pyproject /\ has_setup
    /\ result.status = "returned"

====
